---- MODULE Spec2Model ----
(***************************************************************************)
(* NBA game predictor: the prediction engine (src/backend/src/predictor/   *)
(* engine.py), the schedule provider (src/backend/src/data/schedule.py)    *)
(* and the /predictions endpoint (src/backend/src/api/main.py).            *)
(*                                                                         *)
(* Number representation.  Python floats are modelled as exact decimal     *)
(* fixed-point integers:                                                   *)
(*   stat values        in quarters               (2.5   -> 10)            *)
(*   weights            in halves                 (1.5   -> 3)             *)
(*   raw/adjusted score in eighths                (5.0   -> 40)            *)
(*   reported scores    in hundredths  (round(x, 2))                       *)
(*   confidence         in tenths      (round(x, 1))                       *)
(* Every stat value of the model is a multiple of 1.25, so every score is  *)
(* a multiple of 0.125 and is computed exactly by binary floating point    *)
(* too; round() on such a value rounds half to even, as Round2 does.       *)
(***************************************************************************)
EXTENDS Integers, Sequences, FiniteSets, TLC

VARIABLES
    home_team,      \* predict_game argument: the home team record
    away_team,      \* predict_game argument: the away team record
    result,         \* use_home_advantage -> outcome of predict_game(home, away, flag)
    stats_in,       \* calculate_team_score argument
    score_out,      \* outcome of calculate_team_score(stats_in)
    upstream,       \* what the scoreboard request yields: a failure or a payload
    fetched,        \* outcome of get_todays_games()
    response,       \* what GET /predictions answers
    use_adv,        \* concurrent call -> its use_home_advantage argument
    pc,             \* concurrent call -> the line of predict_game it is at
    frame,          \* concurrent call -> its local variables
    ret             \* concurrent call -> its outcome

engineVars == <<home_team, away_team, result>>

scoreVars == <<stats_in, score_out>>

providerVars == <<upstream, fetched, response>>

concVars == <<use_adv, pc, frame, ret>>

vars == <<engineVars, scoreVars, providerVars, concVars>>

(***************************************************************************)
(* Bounds of the model.                                                    *)
(***************************************************************************)
\* most keys in a stats mapping handed to predict_game
MaxKeys == 1
\* most keys in a stats mapping handed to calculate_team_score alone
MaxScoreKeys == 3
\* most events in a scoreboard payload
MaxEvents == 2
\* most competitors in a competition
MaxCompetitors == 3
\* concurrent calls of predict_game
NumCalls == 2

(***************************************************************************)
(* Stats mappings.                                                         *)
(***************************************************************************)
\* keys extract_stats can emit; three_pct stands for the keys without a weight
StatKeys == {"fg_pct", "ppg", "apg", "rpg", "three_pct"}

\* -1.25, 0.0, 1.25, 2.5 and 50.0, in quarters
StatValues == {-5, 0, 5, 10, 200}

StatsWithin(n) ==
    UNION {[D -> StatValues] : D \in {K \in SUBSET StatKeys : Cardinality(K) <= n}}

EmptyStats == [k \in {} |-> 0]

\* dict.get(key, default)
Get(d, key, default) == IF key \in DOMAIN d THEN d[key] ELSE default

(***************************************************************************)
(* engine.py                                                               *)
(***************************************************************************)
\* WEIGHTS, in halves, and its insertion order (the order .items() yields)
WEIGHTS == [fg_pct |-> 6, ppg |-> 1, apg |-> 4, rpg |-> 3]

WeightOrder == <<"fg_pct", "ppg", "apg", "rpg">>

\* HOME_COURT_ADVANTAGE = 5.0, in eighths
HOME_COURT_ADVANTAGE == 40

\* the for loop of calculate_team_score from its i-th item on
RECURSIVE ScoreLoop(_, _, _)
ScoreLoop(stats, i, score) ==
    IF i > Len(WeightOrder) THEN score
    ELSE LET stat_name  == WeightOrder[i]
             weight     == WEIGHTS[stat_name]
             stat_value == Get(stats, stat_name, 0)
         IN  ScoreLoop(stats, i + 1, score + stat_value * weight)

\* a scorer that walks the keys of stats and gives an unweighted key weight 1.0
RECURSIVE SumOverKeys(_, _)
SumOverKeys(stats, keys) ==
    IF keys = {} THEN 0
    ELSE LET k == CHOOSE x \in keys : TRUE
         IN  stats[k] * Get(WEIGHTS, k, 2) + SumOverKeys(stats, keys \ {k})

calculate_team_score_all_keys(stats) == SumOverKeys(stats, DOMAIN stats)

calculate_team_score(stats) == ScoreLoop(stats, 1, 0)

\* n/d rounded to the nearest integer, halves to the even neighbour (d > 0)
RoundHalfEven(n, d) ==
    LET q == n \div d
        r == n - q * d
    IN  IF 2 * r < d THEN q
        ELSE IF 2 * r > d THEN q + 1
        ELSE IF q % 2 = 0 THEN q ELSE q + 1

\* round(x, 2): eighths to hundredths
Round2(x) == RoundHalfEven(100 * x, 8)

\* round(min((score_diff / total_score) * 2000, 99.9), 1) in tenths; total_score # 0
Confidence(score_diff, total_score) ==
    LET n == IF total_score > 0 THEN 20000 * score_diff ELSE -(20000 * score_diff)
        d == IF total_score > 0 THEN total_score ELSE -total_score
    IN  IF n >= 999 * d THEN 999 ELSE RoundHalfEven(n, d)

NotCalled == [kind |-> "none"]
Raised(exc) == [kind |-> "raise", exc |-> exc]
Returned(value) == [kind |-> "return", value |-> value]

\* lines 51-53: the home score after the home court bonus
AdjustedHomeIgnoringFlag(home_raw, use_home_advantage) ==
    home_raw + HOME_COURT_ADVANTAGE

AdjustedHome(home_raw, use_home_advantage) ==
    IF use_home_advantage THEN home_raw + HOME_COURT_ADVANTAGE ELSE home_raw

\* line 56: the comparison that names the winner
HomeWinsOnTie(home_score, away_score) == home_score >= away_score

HomeWins(home_score, away_score) == home_score > away_score

\* lines 59 and 63: the margin, taken on the winner's side
ScoreDiffHomeMinusAway(home_score, away_score) == home_score - away_score

ScoreDiff(home_score, away_score) ==
    IF HomeWins(home_score, away_score) THEN home_score - away_score
    ELSE away_score - home_score

\* predict_game: the outcome of one call
predict_game(home, away, use_home_advantage) ==
    LET home_score == AdjustedHome(calculate_team_score(home.stats), use_home_advantage)
        away_score == calculate_team_score(away.stats)
        home_wins  == HomeWins(home_score, away_score)
        predicted_winner == IF home_wins THEN home.name ELSE away.name
        winner_abbr == IF home_wins THEN home.abbreviation ELSE away.abbreviation
        score_diff == ScoreDiff(home_score, away_score)
        total_score == home_score + away_score
    IN  IF total_score = 0 THEN Raised("ZeroDivisionError")
        ELSE Returned([predicted_winner    |-> predicted_winner,
                       winner_abbreviation |-> winner_abbr,
                       confidence          |-> Confidence(score_diff, total_score),
                       home_score          |-> Round2(home_score),
                       away_score          |-> Round2(away_score),
                       score_difference    |-> Round2(score_diff)])

HomeTeams == {[name |-> "Cleveland Cavaliers", abbreviation |-> "CLE", stats |-> s] :
                 s \in StatsWithin(MaxKeys)}

AwayTeams == {[name |-> "Milwaukee Bucks", abbreviation |-> "MIL", stats |-> s] :
                 s \in StatsWithin(MaxKeys)}

NoTeam == [name |-> "", abbreviation |-> "", stats |-> EmptyStats]

(***************************************************************************)
(* Calls of predict_game on one pair of team records.                      *)
(***************************************************************************)
ScoreIdle ==
    /\ stats_in = EmptyStats
    /\ score_out = NotCalled

EngineIdle ==
    /\ home_team = NoTeam
    /\ away_team = NoTeam
    /\ result = [f \in BOOLEAN |-> NotCalled]

ProviderIdle ==
    /\ upstream = [ok |-> FALSE, events |-> <<>>]
    /\ fetched = NotCalled
    /\ response = NotCalled

ConcIdle ==
    /\ use_adv = <<>>
    /\ pc = <<>>
    /\ frame = <<>>
    /\ ret = <<>>

Init ==
    /\ home_team \in HomeTeams
    /\ away_team \in AwayTeams
    /\ result = [f \in BOOLEAN |-> NotCalled]
    /\ ScoreIdle
    /\ ProviderIdle
    /\ ConcIdle

PredictGame(flag) ==
    /\ result[flag] = NotCalled
    /\ result' = [result EXCEPT ![flag] = predict_game(home_team, away_team, flag)]
    /\ UNCHANGED <<home_team, away_team, scoreVars, providerVars, concVars>>

PredictWithAdvantage == PredictGame(TRUE)

PredictWithoutAdvantage == PredictGame(FALSE)

Next == PredictWithAdvantage \/ PredictWithoutAdvantage

Spec == Init /\ [][Next]_vars

(***************************************************************************)
(* Calls of calculate_team_score on one stats mapping.                     *)
(***************************************************************************)
InitScore ==
    /\ stats_in \in StatsWithin(MaxScoreKeys)
    /\ score_out = NotCalled
    /\ EngineIdle
    /\ ProviderIdle
    /\ ConcIdle

CalculateTeamScore ==
    /\ score_out = NotCalled
    /\ score_out' = Returned(calculate_team_score(stats_in))
    /\ UNCHANGED <<stats_in, engineVars, providerVars, concVars>>

NextScore == CalculateTeamScore

SpecScore == InitScore /\ [][NextScore]_vars

(***************************************************************************)
(* schedule.py: the scoreboard payload.  A JSON object is a function on    *)
(* the keys it holds, a JSON array a sequence; competition.status.type.name*)
(* is held flat as competition.status_name.                                *)
(***************************************************************************)
EmptyDict == [k \in {} |-> 0]

PyNone == [kind |-> "None"]

\* a displayValue: a JSON string or JSON null
Str(text) == [json |-> "string", text |-> text]

JsonNull == [json |-> "null"]

\* the statistics arrays a competitor carries in the model
StatisticsSet ==
    { <<>>,
      <<[name |-> "avgPoints",    displayValue |-> Str("2.5")]>>,
      <<[name |-> "avgPoints",    displayValue |-> Str("--")]>>,
      <<[name |-> "avgTurnovers", displayValue |-> Str("2.5")]>>,
      <<[name |-> "avgPoints",    displayValue |-> JsonNull]>> }

HomeInfo == [displayName |-> "Cleveland Cavaliers", abbreviation |-> "CLE"]

AwayInfo == [displayName |-> "Milwaukee Bucks", abbreviation |-> "MIL"]

PlainCompetitor(side) ==
    [homeAway |-> side, team |-> IF side = "home" THEN HomeInfo ELSE AwayInfo,
     statistics |-> <<>>]

\* competitors listed first: the home side with each statistics array, the home
\* side without team info, and the plain away side
FirstCompetitors ==
    {[homeAway |-> "home", team |-> HomeInfo, statistics |-> st] : st \in StatisticsSet}
        \cup {[homeAway |-> "home", statistics |-> <<>>], PlainCompetitor("away")}

\* competitor arrays of 0..MaxCompetitors entries: any first competitor, a plain
\* second one of either side, plain away competitors after it
CompetitorLists ==
    {<<>>}
        \cup {<<c>> : c \in FirstCompetitors}
        \cup UNION {{[i \in 1..n |-> IF i = 1 THEN c ELSE
                                     IF i = 2 THEN PlainCompetitor(side)
                                     ELSE PlainCompetitor("away")] :
                        c \in FirstCompetitors, side \in {"home", "away"}} :
                    n \in 2..MaxCompetitors}

\* events, without their id: no competitions key, an empty competitions array, a
\* finished game, and scheduled games with every competitor array
EventBodies ==
    {[name |-> "MIL at CLE"],
     [name |-> "MIL at CLE", competitions |-> <<>>],
     [name |-> "MIL at CLE",
      competitions |-> <<[status_name |-> "STATUS_FINAL",
                          competitors |-> <<PlainCompetitor("home"),
                                            PlainCompetitor("away")>>]>>]}
        \cup {[name |-> "MIL at CLE",
               competitions |-> <<[status_name |-> "STATUS_SCHEDULED",
                                   competitors |-> cs]>>] : cs \in CompetitorLists}

\* event bodies b with ids 1..Len(b), as the payload's events array
WithIds(b) ==
    [i \in 1..Len(b) |-> [k \in DOMAIN b[i] \cup {"id"} |->
                              IF k = "id" THEN i ELSE b[i][k]]]

(***************************************************************************)
(* schedule.py: extract_stats, parse_team, parse_game, get_todays_games.   *)
(***************************************************************************)
\* stat_map of extract_stats
stat_map == [fieldGoalPct  |-> "fg_pct",
             threePointPct |-> "three_pct",
             freeThrowPct  |-> "ft_pct",
             avgPoints     |-> "ppg",
             avgRebounds   |-> "rpg",
             avgAssists    |-> "apg"]

\* the strings float() parses, with their value in quarters
FloatOf == [s \in {"0", "2.5"} |-> IF s = "0" THEN 0 ELSE 10]

\* float(value): TypeError on null, ValueError on a string that is no number
ParseFloat(value) ==
    IF value.json # "string" THEN Raised("TypeError")
    ELSE IF value.text \in DOMAIN FloatOf THEN Returned(FloatOf[value.text])
    ELSE Raised("ValueError")

\* stats[key] = value
SetItem(d, key, value) ==
    [k \in DOMAIN d \cup {key} |-> IF k = key THEN value ELSE d[k]]

\* lines 170-171: the handler of ValueError
OnValueError(stats, our_name) == SetItem(stats, our_name, 0)

\* the for loop of extract_stats from its i-th entry on
RECURSIVE ExtractLoop(_, _, _)
ExtractLoop(statistics, i, stats) ==
    IF i > Len(statistics) THEN Returned(stats)
    ELSE LET stat      == statistics[i]
             stat_name == Get(stat, "name", "")
         IN  IF stat_name \in DOMAIN stat_map
             THEN LET our_name == stat_map[stat_name]
                      parsed   == ParseFloat(Get(stat, "displayValue", Str("0")))
                  IN  IF parsed.kind = "return"
                      THEN ExtractLoop(statistics, i + 1,
                                       SetItem(stats, our_name, parsed.value))
                      ELSE IF parsed.exc = "ValueError"
                      THEN ExtractLoop(statistics, i + 1, OnValueError(stats, our_name))
                      ELSE parsed
             ELSE ExtractLoop(statistics, i + 1, stats)

extract_stats(statistics) == ExtractLoop(statistics, 1, EmptyStats)

parse_team(competitor) ==
    LET team_info  == Get(competitor, "team", EmptyDict)
        statistics == Get(competitor, "statistics", <<>>)
        stats      == extract_stats(statistics)
    IN  IF stats.kind = "raise" THEN stats
        ELSE Returned([name         |-> Get(team_info, "displayName", "Unknown"),
                       abbreviation |-> Get(team_info, "abbreviation", "UNK"),
                       logo         |-> Get(team_info, "logo", ""),
                       stats        |-> stats.value])

\* the last competitor of the given side, None when there is none (lines 86-93)
RECURSIVE FindSide(_, _, _, _)
FindSide(competitors, side, i, found) ==
    IF i > Len(competitors) THEN found
    ELSE FindSide(competitors, side, i + 1,
                  IF Get(competitors[i], "homeAway", PyNone) = side
                  THEN competitors[i] ELSE found)

\* line 81: exactly two competitors
TwoCompetitors(competitors) == Len(competitors) = 2

\* parse_game: the game, or None (after a warning or a caught exception)
parse_game(event) ==
    LET competitions == Get(event, "competitions", <<EmptyDict>>)
    IN  IF Len(competitions) = 0 THEN PyNone            \* IndexError, caught at 111
        ELSE
        LET competition == competitions[1]
            competitors == Get(competition, "competitors", <<>>)
            home_team_data == FindSide(competitors, "home", 1, PyNone)
            away_team_data == FindSide(competitors, "away", 1, PyNone)
        IN  IF ~TwoCompetitors(competitors) THEN PyNone
            ELSE IF home_team_data = PyNone \/ away_team_data = PyNone THEN PyNone
            ELSE LET home == parse_team(home_team_data)
                     away == parse_team(away_team_data)
                 IN  IF home.kind = "raise" \/ away.kind = "raise"
                     THEN PyNone                        \* caught at 111
                     ELSE [game_id   |-> Get(event, "id", PyNone),
                           game_name |-> Get(event, "name", PyNone),
                           game_time |-> Get(event, "date", PyNone),
                           home_team |-> home.value,
                           away_team |-> away.value]

\* line 35 with every status let through
AnyStatus(status_name) == TRUE

\* line 35: only scheduled games are parsed
IsScheduled(status_name) == status_name = "STATUS_SCHEDULED"

\* the for loop of get_todays_games from its i-th event on
RECURSIVE GamesLoop(_, _, _)
GamesLoop(events, i, games) ==
    IF i > Len(events) THEN Returned(games)
    ELSE LET event        == events[i]
             competitions == Get(event, "competitions", <<EmptyDict>>)
         IN  IF Len(competitions) = 0 THEN Raised("IndexError")     \* line 27
             ELSE LET status_name == Get(competitions[1], "status_name", "")
                      game        == IF IsScheduled(status_name)
                                     THEN parse_game(event) ELSE PyNone
                  IN  GamesLoop(events, i + 1,
                                IF game # PyNone THEN Append(games, game) ELSE games)

\* get_todays_games over what the request yields: a RequestException is caught
\* and answered with [], any other exception leaves the function
get_todays_games(up) ==
    IF ~up.ok THEN Returned(<<>>)
    ELSE GamesLoop(up.events, 1, <<>>)

(***************************************************************************)
(* api/main.py: GET /predictions.                                          *)
(***************************************************************************)
HttpError(status_code, detail) ==
    [status |-> status_code, detail |-> detail]

\* the for loop of get_predictions from its i-th game on
RECURSIVE PredictionsLoop(_, _, _)
PredictionsLoop(games, i, predictions) ==
    IF i > Len(games)
    THEN [status |-> 200,
          body |-> [date |-> "today", games_count |-> Len(predictions),
                    predictions |-> predictions]]
    ELSE LET game       == games[i]
             home       == game.home_team
             away       == game.away_team
             prediction == predict_game(home, away, TRUE)
         IN  IF prediction.kind = "raise"
             THEN HttpError(500, "Error generating predictions")
             ELSE PredictionsLoop(games, i + 1, Append(predictions,
                    [game_id   |-> game.game_id,
                     game_name |-> game.game_name,
                     game_time |-> game.game_time,
                     home_team |-> [name |-> home.name,
                                    abbreviation |-> home.abbreviation,
                                    logo |-> Get(home, "logo", ""),
                                    stats |-> home.stats,
                                    predictor_score |-> prediction.value.home_score],
                     away_team |-> [name |-> away.name,
                                    abbreviation |-> away.abbreviation,
                                    logo |-> Get(away, "logo", ""),
                                    stats |-> away.stats,
                                    predictor_score |-> prediction.value.away_score],
                     prediction |->
                        [winner |-> prediction.value.predicted_winner,
                         winner_abbreviation |-> prediction.value.winner_abbreviation,
                         confidence |-> prediction.value.confidence,
                         score_difference |-> prediction.value.score_difference]]))

get_predictions(up) ==
    LET games == get_todays_games(up)
    IN  IF games.kind = "raise" THEN HttpError(500, "Error generating predictions")
        ELSE IF Len(games.value) = 0
        THEN [status |-> 200,
              body |-> [date |-> "today", games_count |-> 0,
                        message |-> "No scheduled games found for today",
                        predictions |-> <<>>]]
        ELSE PredictionsLoop(games.value, 1, <<>>)

(***************************************************************************)
(* The provider and the endpoint over one upstream answer.                 *)
(***************************************************************************)
InitProvider ==
    /\ \/ upstream = [ok |-> FALSE, events |-> <<>>]     \* RequestException
       \/ \E n \in 0..MaxEvents : \E b \in [1..n -> EventBodies] :
             upstream = [ok |-> TRUE, events |-> WithIds(b)]
    /\ fetched = NotCalled
    /\ response = NotCalled
    /\ EngineIdle
    /\ ScoreIdle
    /\ ConcIdle

GetTodaysGames ==
    /\ fetched = NotCalled
    /\ fetched' = get_todays_games(upstream)
    /\ UNCHANGED <<upstream, response, engineVars, scoreVars, concVars>>

GetPredictions ==
    /\ response = NotCalled
    /\ response' = get_predictions(upstream)
    /\ UNCHANGED <<upstream, fetched, engineVars, scoreVars, concVars>>

NextProvider == GetTodaysGames \/ GetPredictions

SpecProvider == InitProvider /\ [][NextProvider]_vars

(***************************************************************************)
(* Concurrent calls of predict_game, one statement at a time.  The calls   *)
(* share the two team records (odd calls predict away at home, even calls  *)
(* the reverse fixture), the module constants WEIGHTS and                  *)
(* HOME_COURT_ADVANTAGE, and nothing else: every name predict_game assigns *)
(* is a local of the call.                                                 *)
(***************************************************************************)
Calls == 1..NumCalls

\* the first and the second argument of call c
HomeOf(c) == IF c % 2 = 1 THEN home_team ELSE away_team

AwayOf(c) == IF c % 2 = 1 THEN away_team ELSE home_team

ConcStats == {EmptyStats} \cup {[apg |-> v] : v \in StatValues}

\* the locals of a call before its first assignment
NewFrame ==
    [home_score |-> 0, away_score |-> 0, predicted_winner |-> "", winner_abbr |-> "",
     score_diff |-> 0, total_score |-> 0, confidence |-> 0]

InitConc ==
    /\ home_team \in {[name |-> "Cleveland Cavaliers", abbreviation |-> "CLE",
                       stats |-> s] : s \in ConcStats}
    /\ away_team \in {[name |-> "Milwaukee Bucks", abbreviation |-> "MIL",
                       stats |-> s] : s \in ConcStats}
    /\ result = [f \in BOOLEAN |-> NotCalled]
    /\ use_adv \in [Calls -> BOOLEAN]
    /\ pc = [c \in Calls |-> "l48"]
    /\ frame = [c \in Calls |-> NewFrame]
    /\ ret = [c \in Calls |-> NotCalled]
    /\ ScoreIdle
    /\ ProviderIdle

\* call c moves to label l with its locals set to f
Goto(c, l, f) ==
    /\ pc' = [pc EXCEPT ![c] = l]
    /\ frame' = [frame EXCEPT ![c] = f]
    /\ UNCHANGED <<ret, use_adv, engineVars, scoreVars, providerVars>>

\* line 48 with home_score kept in one place for all calls
StepHomeScoreShared(c) ==
    /\ pc[c] = "l48"
    /\ pc' = [pc EXCEPT ![c] = "l49"]
    /\ frame' = [d \in Calls |->
                    [frame[d] EXCEPT !.home_score = calculate_team_score(HomeOf(c).stats)]]
    /\ UNCHANGED <<ret, use_adv, engineVars, scoreVars, providerVars>>

\* line 48
StepHomeScore(c) ==
    /\ pc[c] = "l48"
    /\ Goto(c, "l49", [frame[c] EXCEPT
                          !.home_score = calculate_team_score(HomeOf(c).stats)])

\* line 49
StepAwayScore(c) ==
    /\ pc[c] = "l49"
    /\ Goto(c, "l52", [frame[c] EXCEPT
                          !.away_score = calculate_team_score(AwayOf(c).stats)])

\* lines 52-53
StepAdvantage(c) ==
    /\ pc[c] = "l52"
    /\ Goto(c, "l56", [frame[c] EXCEPT
                          !.home_score = AdjustedHome(frame[c].home_score, use_adv[c])])

\* lines 56-63
StepWinner(c) ==
    /\ pc[c] = "l56"
    /\ LET home_wins == HomeWins(frame[c].home_score, frame[c].away_score)
       IN  Goto(c, "l67", [frame[c] EXCEPT
              !.predicted_winner = IF home_wins THEN HomeOf(c).name ELSE AwayOf(c).name,
              !.winner_abbr = IF home_wins THEN HomeOf(c).abbreviation
                              ELSE AwayOf(c).abbreviation,
              !.score_diff = ScoreDiff(frame[c].home_score, frame[c].away_score)])

\* line 67
StepTotal(c) ==
    /\ pc[c] = "l67"
    /\ Goto(c, "l68", [frame[c] EXCEPT
                          !.total_score = frame[c].home_score + frame[c].away_score])

\* line 68, the division defined
StepConfidence(c) ==
    /\ pc[c] = "l68"
    /\ frame[c].total_score # 0
    /\ Goto(c, "l70", [frame[c] EXCEPT
                          !.confidence = Confidence(frame[c].score_diff,
                                                    frame[c].total_score)])

\* line 68, the division by zero: the call ends in ZeroDivisionError
StepDivisionByZero(c) ==
    /\ pc[c] = "l68"
    /\ frame[c].total_score = 0
    /\ pc' = [pc EXCEPT ![c] = "done"]
    /\ ret' = [ret EXCEPT ![c] = Raised("ZeroDivisionError")]
    /\ UNCHANGED <<frame, use_adv, engineVars, scoreVars, providerVars>>

\* lines 70-77
StepReturn(c) ==
    /\ pc[c] = "l70"
    /\ pc' = [pc EXCEPT ![c] = "done"]
    /\ ret' = [ret EXCEPT ![c] =
                  Returned([predicted_winner    |-> frame[c].predicted_winner,
                            winner_abbreviation |-> frame[c].winner_abbr,
                            confidence          |-> frame[c].confidence,
                            home_score          |-> Round2(frame[c].home_score),
                            away_score          |-> Round2(frame[c].away_score),
                            score_difference    |-> Round2(frame[c].score_diff)])]
    /\ UNCHANGED <<frame, use_adv, engineVars, scoreVars, providerVars>>

HomeScoreStep == \E c \in Calls : StepHomeScore(c)

AwayScoreStep == \E c \in Calls : StepAwayScore(c)

AdvantageStep == \E c \in Calls : StepAdvantage(c)

WinnerStep == \E c \in Calls : StepWinner(c)

TotalStep == \E c \in Calls : StepTotal(c)

ConfidenceStep == \E c \in Calls : StepConfidence(c)

DivisionByZeroStep == \E c \in Calls : StepDivisionByZero(c)

ReturnStep == \E c \in Calls : StepReturn(c)

NextConc ==
    \/ HomeScoreStep
    \/ AwayScoreStep
    \/ AdvantageStep
    \/ WinnerStep
    \/ TotalStep
    \/ ConfidenceStep
    \/ DivisionByZeroStep
    \/ ReturnStep

SpecConc == InitConc /\ [][NextConc]_vars

(***************************************************************************)
(* Properties of predict_game (specification Spec).                        *)
(***************************************************************************)
Abs(x) == IF x < 0 THEN -x ELSE x

Called(f) == result[f] # NotCalled

HasReturned(f) == result[f].kind = "return"

\* the adjusted scores of the call with flag f, in eighths
HomeAdj(f) ==
    calculate_team_score(home_team.stats) + (IF f THEN HOME_COURT_ADVANTAGE ELSE 0)

AwayAdj == calculate_team_score(away_team.stats)

\* C1: when the two adjusted scores sum to zero, predict_game returns a
\* Prediction whose confidence is 0.0 instead of ending in a division by zero.
C1_ZeroTotalFallback ==
    \A f \in BOOLEAN :
        (Called(f) /\ HomeAdj(f) + AwayAdj = 0)
            => (HasReturned(f) /\ result[f].value.confidence = 0)

\* C3: every Prediction that predict_game returns has its confidence in
\* [0, 99.9], whatever the two stats mappings and the flag.
C3_ConfidenceInRange ==
    \A f \in BOOLEAN :
        HasReturned(f)
            => (result[f].value.confidence >= 0 /\ result[f].value.confidence <= 999)

\* C4: the winner is the home team exactly when home_adj > away_adj, the away
\* team otherwise (so on a tie), and name and abbreviation are one team's.
C4_WinnerStrict ==
    \A f \in BOOLEAN :
        HasReturned(f) =>
            LET w == IF HomeAdj(f) > AwayAdj THEN home_team ELSE away_team
            IN  /\ result[f].value.predicted_winner = w.name
                /\ result[f].value.winner_abbreviation = w.abbreviation

\* a call that returned on a tie of the adjusted scores, won by the away team
C4_Witness ==
    \E f \in BOOLEAN :
        /\ HasReturned(f)
        /\ HomeAdj(f) = AwayAdj
        /\ result[f].value.predicted_winner = away_team.name
        /\ result[f].value.winner_abbreviation = away_team.abbreviation

\* C6: without home advantage the reported home_score is exactly 5.0 lower than
\* with it, away_score is the same, winner and score_difference are those of
\* comparing (home_adj - 5.0) with away_adj, and the home_score reported with
\* the advantage is the adjusted score.
C6_DisableSubtractsFive ==
    (HasReturned(TRUE) /\ HasReturned(FALSE)) =>
        LET on  == result[TRUE].value
            off == result[FALSE].value
            lowered == HomeAdj(TRUE) - HOME_COURT_ADVANTAGE
            w == IF lowered > AwayAdj THEN home_team ELSE away_team
        IN  /\ on.home_score - off.home_score = 500
            /\ on.away_score = off.away_score
            /\ off.predicted_winner = w.name
            /\ off.winner_abbreviation = w.abbreviation
            /\ off.score_difference = Round2(Abs(lowered - AwayAdj))
            /\ on.home_score = Round2(HomeAdj(TRUE))

\* both calls returned and the home advantage decided the winner
C6_Witness ==
    /\ HasReturned(TRUE)
    /\ HasReturned(FALSE)
    /\ result[TRUE].value.predicted_winner = home_team.name
    /\ result[FALSE].value.predicted_winner = away_team.name
    /\ calculate_team_score(home_team.stats) # 0

\* C7 as stated: score_difference equals |home_adj - away_adj| (compared in
\* units of 1/800) and is never negative.
C7_DiffIsExactAbs ==
    \A f \in BOOLEAN :
        HasReturned(f) =>
            /\ 8 * result[f].value.score_difference = 100 * Abs(HomeAdj(f) - AwayAdj)
            /\ result[f].value.score_difference >= 0

\* C7 amended: score_difference equals |home_adj - away_adj| rounded to two
\* decimals, and is never negative, whichever side wins and with either flag.
C7_DiffIsRoundedAbs ==
    \A f \in BOOLEAN :
        HasReturned(f) =>
            /\ result[f].value.score_difference = Round2(Abs(HomeAdj(f) - AwayAdj))
            /\ result[f].value.score_difference >= 0

\* the away team won by a margin that two decimals cannot hold
C7_Witness ==
    \E f \in BOOLEAN :
        /\ HasReturned(f)
        /\ HomeAdj(f) < AwayAdj
        /\ 8 * result[f].value.score_difference # 100 * (AwayAdj - HomeAdj(f))

(***************************************************************************)
(* Properties of calculate_team_score (specification SpecScore).           *)
(***************************************************************************)
\* the value the formula reads for a key: the one present, else 0.0
ValueOrZero(stats, k) == IF k \in DOMAIN stats THEN stats[k] ELSE 0

\* stats with every weighted key present, the absent ones as 0.0
PadWithZeros(stats) ==
    [k \in DOMAIN stats \cup DOMAIN WEIGHTS |-> ValueOrZero(stats, k)]

\* stats without the keys that have no weight
DropUnweighted(stats) == [k \in DOMAIN stats \cap DOMAIN WEIGHTS |-> stats[k]]

\* C5: the score is fg_pct*3.0 + ppg*0.5 + apg*2.0 + rpg*1.5 (in eighths:
\* weights 6, 1, 4, 3 over quarters); an absent weighted key counts as the key
\* present with 0.0, and keys without a weight never change the result.
C5_WeightedSum ==
    score_out.kind = "return" =>
        /\ score_out.value = ValueOrZero(stats_in, "fg_pct") * 6
                             + ValueOrZero(stats_in, "ppg") * 1
                             + ValueOrZero(stats_in, "apg") * 4
                             + ValueOrZero(stats_in, "rpg") * 3
        /\ calculate_team_score(PadWithZeros(stats_in)) = score_out.value
        /\ calculate_team_score(DropUnweighted(stats_in)) = score_out.value

\* a scored mapping that lacks a weighted key and holds a nonzero unweighted one
C5_Witness ==
    /\ score_out.kind = "return"
    /\ "fg_pct" \notin DOMAIN stats_in
    /\ "ppg" \in DOMAIN stats_in
    /\ "three_pct" \in DOMAIN stats_in
    /\ stats_in["three_pct"] # 0
    /\ score_out.value # 0

(***************************************************************************)
(* Properties of get_todays_games and GET /predictions (SpecProvider).     *)
(***************************************************************************)
Events == upstream.events

HasCompetition(e) == "competitions" \in DOMAIN e /\ Len(e.competitions) > 0

StatusOf(e) == e.competitions[1].status_name

\* how many competitors of event e are on the given side
SideCount(e, side) ==
    Cardinality({k \in 1..Len(e.competitions[1].competitors) :
                    e.competitions[1].competitors[k].homeAway = side})

\* the returned games that carry the id of event e
GamesOf(e) == {i \in 1..Len(fetched.value) : fetched.value[i].game_id = e.id}

IsTeamRecord(t) ==
    /\ {"name", "abbreviation", "stats"} \subseteq DOMAIN t
    /\ DOMAIN t.stats \subseteq {stat_map[n] : n \in DOMAIN stat_map}

\* C2: when the upstream fetch fails, /predictions answers with a 500-level
\* error that carries a message.
C2_UpstreamFailureIs500 ==
    (response # NotCalled /\ ~upstream.ok)
        => (response.status >= 500 /\ "detail" \in DOMAIN response)

\* C8: every returned game comes from an event whose status is
\* STATUS_SCHEDULED, with exactly one home and one away competitor, and carries
\* a home and an away record with name, abbreviation and a stats mapping; an
\* event with any other status gives no game.
C8_ScheduledGamesOnly ==
    fetched.kind = "return" =>
        /\ \A i \in 1..Len(fetched.value) :
              /\ IsTeamRecord(fetched.value[i].home_team)
              /\ IsTeamRecord(fetched.value[i].away_team)
              /\ \E j \in 1..Len(Events) :
                    /\ Events[j].id = fetched.value[i].game_id
                    /\ HasCompetition(Events[j])
                    /\ StatusOf(Events[j]) = "STATUS_SCHEDULED"
                    /\ SideCount(Events[j], "home") = 1
                    /\ SideCount(Events[j], "away") = 1
        /\ \A j \in 1..Len(Events) :
              (HasCompetition(Events[j]) /\ StatusOf(Events[j]) # "STATUS_SCHEDULED")
                  => GamesOf(Events[j]) = {}

\* a finished game was left out, and a scheduled one without team info and
\* without statistics was returned with the default name and an empty mapping
C8_Witness ==
    /\ fetched.kind = "return"
    /\ \E j \in 1..Len(Events) :
          HasCompetition(Events[j]) /\ StatusOf(Events[j]) = "STATUS_FINAL"
    /\ \E i \in 1..Len(fetched.value) :
          /\ fetched.value[i].home_team.name = "Unknown"
          /\ fetched.value[i].home_team.stats = EmptyStats

\* the malformations of an event's structure that claim C10 lists
Malformed(e) ==
    \/ ~HasCompetition(e)
    \/ Len(e.competitions[1].competitors) # 2
    \/ SideCount(e, "home") = 0
    \/ SideCount(e, "away") = 0

\* whether some statistics entry of event e has the display value v
HasDisplayValue(e, v) ==
    \E k \in 1..Len(e.competitions[1].competitors) :
        \E n \in 1..Len(e.competitions[1].competitors[k].statistics) :
            e.competitions[1].competitors[k].statistics[n].displayValue = v

\* C10: a malformed event never makes get_todays_games raise; its game is left
\* out, every well-formed scheduled game of the payload is returned, and a
\* non-numeric display value is stored as 0.0.
C10_MalformedEventsOmitted ==
    fetched # NotCalled =>
        /\ fetched.kind = "return"
        /\ \A j \in 1..Len(Events) :
              /\ Malformed(Events[j]) => GamesOf(Events[j]) = {}
              /\ ( /\ ~Malformed(Events[j])
                   /\ StatusOf(Events[j]) = "STATUS_SCHEDULED"
                   /\ ~HasDisplayValue(Events[j], JsonNull) )
                    => Cardinality(GamesOf(Events[j])) = 1
              /\ (~Malformed(Events[j]) /\ HasDisplayValue(Events[j], Str("--")))
                    => \A i \in GamesOf(Events[j]) :
                          fetched.value[i].home_team.stats = [ppg |-> 0]

(***************************************************************************)
(* Properties of concurrent calls of predict_game (SpecConc).              *)
(***************************************************************************)
\* C9: no step of any call changes the team records (or their stats), and
\* under every interleaving each finished call has the outcome the same call
\* has when it runs alone on the same arguments.
C9_PureUnderInterleaving ==
    /\ [](\A c \in Calls :
             pc[c] = "done" => ret[c] = predict_game(HomeOf(c), AwayOf(c), use_adv[c]))
    /\ [][home_team' = home_team /\ away_team' = away_team]_vars

\* call 1 returned a Prediction while call 2, already started on the same two
\* records, was still between its statements
C9_Witness ==
    /\ pc[1] = "done"
    /\ ret[1].kind = "return"
    /\ pc[2] \in {"l52", "l56", "l67"}
    /\ home_team.stats # away_team.stats

====
